---- MODULE Spec2Model ----
(***************************************************************************)
(* Model of gong_mcp/server.py: the module start-up (credential check,     *)
(* client construction, tool registration), the signing client             *)
(* (GongClient), the two tools exposed through FastMCP and main().         *)
(*                                                                         *)
(* Python values are modelled as tagged records of one shape so that any   *)
(* two of them can be compared: None, str, bool, list and dict.  Strings   *)
(* are plain ASCII without characters json.dumps would escape.  HMAC and   *)
(* base64 are modelled as injective string constructors.                   *)
(***************************************************************************)
EXTENDS Naturals, Sequences, FiniteSets, TLC

VARIABLES
    GONG_ACCESS_KEY,     \* os.getenv("GONG_ACCESS_KEY"), a Python value
    GONG_ACCESS_SECRET,  \* os.getenv("GONG_ACCESS_SECRET")
    pc,                  \* position of the process
    exit_code,           \* NotExited until the process has exited
    stderr,              \* what was printed to sys.stderr
    gong_client,         \* the module-level GongClient
    tools,               \* names registered with @mcp.tool()
    requests,            \* every call of self.client.request, in order
    inflight,            \* invocations blocked in self.client.request
    invocations,         \* tool invocations started so far
    completed,           \* invocations that returned to the protocol
    last_result,         \* what the last finished invocation returned
    last_end,            \* how the last in-flight request ended
    failed_before,       \* some earlier invocation ended in a failure
    pending,             \* exception propagating out of main()
    sig_args,            \* arguments of a direct call of _request
    sig_out              \* the request that call built

vars == <<GONG_ACCESS_KEY, GONG_ACCESS_SECRET, pc, exit_code, stderr,
          gong_client, tools, requests, inflight, invocations, completed,
          last_result, last_end, failed_before, pending, sig_args, sig_out>>

procVars == <<GONG_ACCESS_KEY, GONG_ACCESS_SECRET, pc, exit_code, stderr,
              gong_client, tools, requests, inflight, invocations,
              completed, last_result, last_end, failed_before, pending>>

----------------------------------------------------------------------------
(* Bounds *)

MaxInvocations == 2
MaxClock == 1

----------------------------------------------------------------------------
(* Python values *)

PyNone == [t |-> "none", s |-> "", keys |-> <<>>, items |-> <<>>]
PyStr(x) == [t |-> "str", s |-> x, keys |-> <<>>, items |-> <<>>]
PyBool(b) == [t |-> "bool", s |-> IF b THEN "true" ELSE "false",
              keys |-> <<>>, items |-> <<>>]
PyList(xs) == [t |-> "list", s |-> "", keys |-> <<>>, items |-> xs]
PyDict(ks, vs) == [t |-> "dict", s |-> "", keys |-> ks, items |-> vs]

EmptyDict == PyDict(<<>>, <<>>)

\* Python truth value: None, "", False, [] and {} are false
Truthy(v) ==
    CASE v.t = "none" -> FALSE
      [] v.t = "str"  -> v.s # ""
      [] v.t = "bool" -> v.s = "true"
      [] OTHER        -> Len(v.items) > 0

\* Python `a or b`
PyOr(a, b) == IF Truthy(a) THEN a ELSE b

\* params[key] = value on a dict
DictSet(d, key, value) == PyDict(Append(d.keys, key), Append(d.items, value))

HasKey(d, key) == \E i \in 1..Len(d.keys) : d.keys[i] = key

DictGet(d, key) == d.items[CHOOSE i \in 1..Len(d.keys) : d.keys[i] = key]

RECURSIVE Spaces(_)
Spaces(n) == IF n = 0 THEN "" ELSE "  " \o Spaces(n - 1)

\* json.dumps(v): default separators ", " and ": "
RECURSIVE Dumps(_), DumpsList(_, _), DumpsDict(_, _, _)
Dumps(v) ==
    CASE v.t = "none" -> "null"
      [] v.t = "str"  -> "\"" \o v.s \o "\""
      [] v.t = "bool" -> v.s
      [] v.t = "list" -> "[" \o DumpsList(v.items, 1) \o "]"
      [] OTHER        -> "{" \o DumpsDict(v.keys, v.items, 1) \o "}"
DumpsList(xs, i) ==
    IF i > Len(xs) THEN ""
    ELSE Dumps(xs[i]) \o (IF i < Len(xs) THEN ", " ELSE "")
         \o DumpsList(xs, i + 1)
DumpsDict(ks, xs, i) ==
    IF i > Len(ks) THEN ""
    ELSE "\"" \o ks[i] \o "\": " \o Dumps(xs[i])
         \o (IF i < Len(ks) THEN ", " ELSE "") \o DumpsDict(ks, xs, i + 1)

\* json.dumps(v, indent=2), v nested `level` containers deep
RECURSIVE DumpsIndent(_, _), IndentList(_, _, _), IndentDict(_, _, _, _)
DumpsIndent(v, level) ==
    CASE v.t = "none" -> "null"
      [] v.t = "str"  -> "\"" \o v.s \o "\""
      [] v.t = "bool" -> v.s
      [] v.t = "list" ->
            IF Len(v.items) = 0 THEN "[]"
            ELSE "[\n" \o IndentList(v.items, 1, level + 1)
                 \o "\n" \o Spaces(level) \o "]"
      [] OTHER ->
            IF Len(v.keys) = 0 THEN "{}"
            ELSE "{\n" \o IndentDict(v.keys, v.items, 1, level + 1)
                 \o "\n" \o Spaces(level) \o "}"
IndentList(xs, i, level) ==
    IF i > Len(xs) THEN ""
    ELSE Spaces(level) \o DumpsIndent(xs[i], level)
         \o (IF i < Len(xs) THEN ",\n" ELSE "")
         \o IndentList(xs, i + 1, level)
IndentDict(ks, xs, i, level) ==
    IF i > Len(ks) THEN ""
    ELSE Spaces(level) \o "\"" \o ks[i] \o "\": "
         \o DumpsIndent(xs[i], level)
         \o (IF i < Len(ks) THEN ",\n" ELSE "")
         \o IndentDict(ks, xs, i + 1, level)

\* base64.b64encode(x).decode(): injective
B64(x) == "b64(" \o x \o ")"

\* hmac.new(key, msg, hashlib.sha256).digest(): injective in (key, msg)
HmacSha256(key, msg) == "hmac-sha256(" \o key \o "|" \o msg \o ")"

----------------------------------------------------------------------------
(* Constants of the module and the values the environment can supply *)

GONG_API_URL == "https://api.gong.io/v2"

\* exit_code is <<>> until the process exits, then <<status>>
NotExited == <<>>

MissingCredentialsMessage ==
    "Error: GONG_ACCESS_KEY and GONG_ACCESS_SECRET environment variables are required"

ShutdownMessage == "\nShutting down gracefully..."

\* os.getenv gives None for an unset variable, and may give ""
KeyValues == {PyNone, PyStr(""), PyStr("key")}
SecretValues == {PyNone, PyStr(""), PyStr("secret")}

\* what datetime.utcnow() can return: the wall clock may stand still between
\* two calls (its resolution) and may be set back
Clock == 0..MaxClock

\* what a caller of the list_calls tool can pass for its two Optional[str]
\* arguments, <<from_date_time, to_date_time>>: nothing, a start only, an
\* empty start with an end, both
ListCallsArgs ==
    {<<PyNone, PyNone>>,
     <<PyStr("2024-03-01T00:00:00Z"), PyNone>>,
     <<PyStr(""), PyStr("2024-03-31T23:59:59Z")>>,
     <<PyStr("2024-03-01T00:00:00Z"), PyStr("2024-03-31T23:59:59Z")>>}

\* what a caller of retrieve_transcripts can pass for call_ids
CallIdValues == {<<"id1", "id2">>}

\* bodies the remote service answers with
Responses == {PyDict(<<"calls">>, <<PyList(<<>>)>>)}

\* how self.client.request .. json.dumps(response) can go (lines 91-99, 149)
Failures == {"network_error", "timeout", "http_status_error",
             "malformed_body", "dumps_error"}
Outcomes == {"ok"} \cup Failures

\* str(e) of the exception each failure raises
ErrorMessage(outcome) ==
    CASE outcome = "network_error"     -> "ConnectError"
      [] outcome = "timeout"           -> "ReadTimeout"
      [] outcome = "http_status_error" -> "HTTPStatusError"
      [] outcome = "malformed_body"    -> "JSONDecodeError"
      [] OTHER                         -> "TypeError"

----------------------------------------------------------------------------
(* GongClient *)

NoClient == [access_key |-> "", access_secret |-> "", client |-> "absent"]

\* GongClient.__init__
GongClientInit(access_key, access_secret) ==
    [access_key |-> access_key, access_secret |-> access_secret,
     client |-> "open"]

CloseSkipped(c) == c

\* GongClient.close
Close(c) == [c EXCEPT !.client = "closed"]

\* datetime.isoformat(): the fraction is left out when it is zero
IsoFormat(t) ==
    IF t = 0 THEN "2024-03-01T00:00:00"
    ELSE "2024-03-01T00:00:00.00000" \o ToString(t)

TimestampAtImport(t) == IsoFormat(0) \o "Z"

\* timestamp = datetime.utcnow().isoformat() + "Z"
Timestamp(t) == IsoFormat(t) \o "Z"

\* f"{method}\n{path}\n{timestamp}\n{params_str}"
StringToSign(method, path, timestamp, params_str) ==
    method \o "\n" \o path \o "\n" \o timestamp \o "\n" \o params_str

\* GongClient._generate_signature
GenerateSignature(c, method, path, timestamp, params) ==
    LET params_str == IF Truthy(params) THEN Dumps(params) ELSE ""
        string_to_sign == StringToSign(method, path, timestamp, params_str)
    IN  B64(HmacSha256(c.access_secret, string_to_sign))

ParamsOrData(params, data) == PyOr(params, data)

\* the fourth argument of _generate_signature in _request: data or params
DataOrParams(params, data) == PyOr(data, params)

RequestSigningUrl(c, method, path, params, data, t) ==
    LET timestamp == Timestamp(t)
        url == GONG_API_URL \o path
    IN  [method |-> method, url |-> url, params |-> params, json |-> data,
         headers |->
            ("Content-Type" :> "application/json")
            @@ ("Authorization" :> "Basic "
                    \o B64(c.access_key \o ":" \o c.access_secret))
            @@ ("X-Gong-AccessKey" :> c.access_key)
            @@ ("X-Gong-Timestamp" :> timestamp)
            @@ ("X-Gong-Signature" :>
                    GenerateSignature(c, method, url, timestamp,
                                      DataOrParams(params, data)))]

\* GongClient._request up to the call of self.client.request: the arguments
\* that call is given
Request(c, method, path, params, data, t) ==
    LET timestamp == Timestamp(t)
        url == GONG_API_URL \o path
        auth_string == c.access_key \o ":" \o c.access_secret
        basic_auth == B64(auth_string)
        headers ==
            ("Content-Type" :> "application/json")
            @@ ("Authorization" :> "Basic " \o basic_auth)
            @@ ("X-Gong-AccessKey" :> c.access_key)
            @@ ("X-Gong-Timestamp" :> timestamp)
            @@ ("X-Gong-Signature" :>
                    GenerateSignature(c, method, path, timestamp,
                                      DataOrParams(params, data)))
    IN  [method |-> method, url |-> url, params |-> params, json |-> data,
         headers |-> headers]

ListCallsParamsFromOnly(from_date_time, to_date_time) ==
    LET p1 == IF Truthy(from_date_time)
              THEN DictSet(EmptyDict, "fromDateTime", from_date_time)
              ELSE EmptyDict
    IN  IF Truthy(from_date_time)
        THEN DictSet(p1, "toDateTime", to_date_time)
        ELSE p1

\* the params dict GongClient.list_calls builds
ListCallsParams(from_date_time, to_date_time) ==
    LET p1 == IF Truthy(from_date_time)
              THEN DictSet(EmptyDict, "fromDateTime", from_date_time)
              ELSE EmptyDict
    IN  IF Truthy(to_date_time)
        THEN DictSet(p1, "toDateTime", to_date_time)
        ELSE p1

RECURSIVE StrList(_, _)
StrList(ids, i) ==
    IF i > Len(ids) THEN <<>> ELSE <<PyStr(ids[i])>> \o StrList(ids, i + 1)

\* the data dict GongClient.retrieve_transcripts builds
TranscriptsData(call_ids) ==
    PyDict(<<"filter">>,
           <<PyDict(<<"callIds", "includeEntities",
                      "includeInteractionsSummary", "includeTrackers">>,
                    <<PyList(StrList(call_ids, 1)), PyBool(TRUE),
                      PyBool(TRUE), PyBool(TRUE)>>)>>)

\* GongClient.list_calls: the request it has _request make
GongClient_list_calls(c, from_date_time, to_date_time, t) ==
    Request(c, "GET", "/calls",
            ListCallsParams(from_date_time, to_date_time), PyNone, t)

\* GongClient.retrieve_transcripts: the request it has _request make
GongClient_retrieve_transcripts(c, call_ids, t) ==
    Request(c, "POST", "/calls/transcript", PyNone,
            TranscriptsData(call_ids), t)

----------------------------------------------------------------------------
(* Module start-up *)

CredentialsMissingBoth(key, secret) == ~Truthy(key) /\ ~Truthy(secret)

\* if not GONG_ACCESS_KEY or not GONG_ACCESS_SECRET
CredentialsMissing(key, secret) == ~Truthy(key) \/ ~Truthy(secret)

NoResult == [inv |-> 0, outcome |-> "", text |-> "", escaped |-> FALSE]

NoArgs == [method |-> "", path |-> "", params |-> PyNone, data |-> PyNone,
           t |-> 0]

Init ==
    /\ GONG_ACCESS_KEY \in KeyValues
    /\ GONG_ACCESS_SECRET \in SecretValues
    /\ pc = "import"
    /\ exit_code = NotExited
    /\ stderr = <<>>
    /\ gong_client = NoClient
    /\ tools = {}
    /\ requests = <<>>
    /\ inflight = {}
    /\ invocations = 0
    /\ completed = {}
    /\ last_result = NoResult
    /\ last_end = "none"
    /\ failed_before = FALSE
    /\ pending = "none"
    /\ sig_args = NoArgs
    /\ sig_out = <<>>

\* lines 23-29: the check of the two environment variables
CheckEnvironment ==
    /\ pc = "import"
    /\ IF CredentialsMissing(GONG_ACCESS_KEY, GONG_ACCESS_SECRET)
       THEN /\ stderr' = Append(stderr, MissingCredentialsMessage)
            /\ exit_code' = <<1>>
            /\ pc' = "exited"
       ELSE /\ pc' = "checked"
            /\ UNCHANGED <<stderr, exit_code>>
    /\ UNCHANGED <<GONG_ACCESS_KEY, GONG_ACCESS_SECRET, gong_client, tools,
                   requests, inflight, invocations, completed,
                   last_result, last_end, failed_before, pending, sig_args,
                   sig_out>>

\* line 129: gong_client = GongClient(GONG_ACCESS_KEY, GONG_ACCESS_SECRET)
ConstructClient ==
    /\ pc = "checked"
    /\ gong_client' = GongClientInit(GONG_ACCESS_KEY.s, GONG_ACCESS_SECRET.s)
    /\ pc' = "constructed"
    /\ UNCHANGED <<GONG_ACCESS_KEY, GONG_ACCESS_SECRET, exit_code, stderr,
                   tools, requests, inflight, invocations, completed,
                   last_result, last_end, failed_before, pending, sig_args,
                   sig_out>>

\* lines 132-169: mcp = FastMCP(...) and the two @mcp.tool() decorators
RegisterTools ==
    /\ pc = "constructed"
    /\ tools' = {"list_calls", "retrieve_transcripts"}
    /\ pc' = "registered"
    /\ UNCHANGED <<GONG_ACCESS_KEY, GONG_ACCESS_SECRET, exit_code, stderr,
                   gong_client, requests, inflight, invocations,
                   completed, last_result, last_end, failed_before, pending,
                   sig_args, sig_out>>

\* main() entering mcp.run()
MainRun ==
    /\ pc = "registered"
    /\ pc' = "serving"
    /\ UNCHANGED <<GONG_ACCESS_KEY, GONG_ACCESS_SECRET, exit_code, stderr,
                   gong_client, tools, requests, inflight, invocations,
                   completed, last_result, last_end, failed_before, pending,
                   sig_args, sig_out>>

----------------------------------------------------------------------------
(* Serving: the two tools *)

CanAcceptWhileBlocked == pc = "serving"

\* the tools are plain synchronous functions: one is entered only when no
\* other is blocked in its HTTP call
CanAccept == pc = "serving" /\ inflight = {}

SendWithRetry(log, entry) == Append(Append(log, entry), entry)

\* response = self.client.request(...): one call per _request
Send(log, entry) == Append(log, entry)

\* what is recorded of one self.client.request call: the request, what
\* datetime.utcnow() returned when it was built, the invocation, its arguments
Entry(req, t, inv, tool, from_date_time, to_date_time, call_ids) ==
    [req |-> req, at |-> t, inv |-> inv, tool |-> tool,
     from_date_time |-> from_date_time, to_date_time |-> to_date_time,
     call_ids |-> call_ids]

\* the list_calls tool up to its blocking HTTP call
list_calls(from_date_time, to_date_time, t) ==
    /\ CanAccept
    /\ "list_calls" \in tools
    /\ invocations < MaxInvocations
    /\ invocations' = invocations + 1
    /\ requests' =
          Send(requests,
               Entry(GongClient_list_calls(gong_client, from_date_time,
                                           to_date_time, t),
                     t, invocations + 1, "list_calls", from_date_time,
                     to_date_time, <<>>))
    /\ inflight' = inflight \cup {invocations + 1}
    /\ UNCHANGED <<GONG_ACCESS_KEY, GONG_ACCESS_SECRET, pc, exit_code,
                   stderr, gong_client, tools, completed, last_result,
                   last_end, failed_before, pending, sig_args, sig_out>>

\* the retrieve_transcripts tool up to its blocking HTTP call
retrieve_transcripts(call_ids, t) ==
    /\ CanAccept
    /\ "retrieve_transcripts" \in tools
    /\ invocations < MaxInvocations
    /\ invocations' = invocations + 1
    /\ requests' =
          Send(requests,
               Entry(GongClient_retrieve_transcripts(gong_client, call_ids,
                                                     t),
                     t, invocations + 1, "retrieve_transcripts", PyNone, PyNone,
                     call_ids))
    /\ inflight' = inflight \cup {invocations + 1}
    /\ UNCHANGED <<GONG_ACCESS_KEY, GONG_ACCESS_SECRET, pc, exit_code,
                   stderr, gong_client, tools, completed, last_result,
                   last_end, failed_before, pending, sig_args, sig_out>>

ErrorPayload(outcome) ==
    DumpsIndent(PyDict(<<"error">>, <<PyStr(ErrorMessage(outcome))>>), 0)

ToolResultHttpErrorsOnly(outcome, response) ==
    IF outcome = "ok"
    THEN [text |-> DumpsIndent(response, 0), escaped |-> FALSE]
    ELSE IF outcome \in {"network_error", "timeout", "http_status_error"}
         THEN [text |-> ErrorPayload(outcome), escaped |-> FALSE]
         ELSE [text |-> "", escaped |-> TRUE]

\* try: return json.dumps(response, indent=2)
\* except Exception as e: return json.dumps({"error": str(e)}, indent=2)
ToolResult(outcome, response) ==
    IF outcome = "ok"
    THEN [text |-> DumpsIndent(response, 0), escaped |-> FALSE]
    ELSE [text |-> ErrorPayload(outcome), escaped |-> FALSE]

\* how the blocked self.client.request call ended
EndOf(outcome) ==
    CASE outcome = "timeout"       -> "timeout"
      [] outcome = "network_error" -> "error"
      [] OTHER                     -> "response"

ToolReturnClosingOnError(outcome, response) ==
    /\ pc = "serving"
    /\ \E inv \in inflight :
          /\ inflight' = inflight \ {inv}
          /\ completed' = completed \cup {inv}
          /\ last_result' =
                [inv |-> inv, outcome |-> outcome,
                 text |-> ToolResult(outcome, response).text,
                 escaped |-> ToolResult(outcome, response).escaped]
    /\ last_end' = EndOf(outcome)
    /\ failed_before' = (failed_before \/ outcome # "ok")
    /\ gong_client' = IF outcome = "ok" THEN gong_client
                      ELSE Close(gong_client)
    /\ UNCHANGED <<GONG_ACCESS_KEY, GONG_ACCESS_SECRET, pc, exit_code,
                   stderr, tools, requests, invocations,
                   pending, sig_args, sig_out>>

\* the rest of a tool: the HTTP call ends, raise_for_status, response.json,
\* json.dumps, and the except clause; the tool returns to the protocol
ToolReturn(outcome, response) ==
    /\ pc = "serving"
    /\ \E inv \in inflight :
          /\ inflight' = inflight \ {inv}
          /\ completed' = completed \cup {inv}
          /\ last_result' =
                [inv |-> inv, outcome |-> outcome,
                 text |-> ToolResult(outcome, response).text,
                 escaped |-> ToolResult(outcome, response).escaped]
    /\ last_end' = EndOf(outcome)
    /\ failed_before' = (failed_before \/ outcome # "ok")
    /\ UNCHANGED <<GONG_ACCESS_KEY, GONG_ACCESS_SECRET, pc, exit_code,
                   stderr, gong_client, tools, requests, invocations,
                   pending, sig_args, sig_out>>

----------------------------------------------------------------------------
(* main(): how mcp.run() is left, and the finally clause *)

\* except KeyboardInterrupt: raised in mcp.run(), idle or inside a tool
\* (a tool's `except Exception` does not catch it)
KeyboardInterrupt ==
    /\ pc = "serving"
    /\ stderr' = Append(stderr, ShutdownMessage)
    /\ pc' = "finally"
    /\ inflight' = {}
    /\ last_end' = IF inflight # {} THEN "interrupt" ELSE last_end
    /\ UNCHANGED <<GONG_ACCESS_KEY, GONG_ACCESS_SECRET, exit_code,
                   gong_client, tools, requests, invocations,
                   completed, last_result, failed_before, pending,
                   sig_args, sig_out>>

\* mcp.run() returns: the transport was closed
RunReturns ==
    /\ pc = "serving"
    /\ inflight = {}
    /\ pc' = "finally"
    /\ UNCHANGED <<GONG_ACCESS_KEY, GONG_ACCESS_SECRET, exit_code, stderr,
                   gong_client, tools, requests, inflight, invocations,
                   completed, last_result, last_end, failed_before, pending,
                   sig_args, sig_out>>

\* mcp.run() raises something other than KeyboardInterrupt
RunRaises ==
    /\ pc = "serving"
    /\ inflight = {}
    /\ pc' = "finally"
    /\ pending' = "exception"
    /\ UNCHANGED <<GONG_ACCESS_KEY, GONG_ACCESS_SECRET, exit_code, stderr,
                   gong_client, tools, requests, inflight, invocations,
                   completed, last_result, last_end, failed_before,
                   sig_args, sig_out>>

\* finally: gong_client.close(); then the process exits
MainFinally ==
    /\ pc = "finally"
    /\ gong_client' = Close(gong_client)
    /\ exit_code' = IF pending = "exception" THEN <<1>> ELSE <<0>>
    /\ pc' = "exited"
    /\ UNCHANGED <<GONG_ACCESS_KEY, GONG_ACCESS_SECRET, stderr, tools, requests, inflight, invocations, completed, last_result,
                   last_end, failed_before, pending, sig_args, sig_out>>

Next ==
    \/ CheckEnvironment
    \/ ConstructClient
    \/ RegisterTools
    \/ MainRun
    \/ \E a \in ListCallsArgs, t \in Clock : list_calls(a[1], a[2], t)
    \/ \E ids \in CallIdValues, t \in Clock : retrieve_transcripts(ids, t)
    \/ \E o \in Outcomes, r \in Responses : ToolReturn(o, r)
    \/ KeyboardInterrupt
    \/ RunReturns
    \/ RunRaises
    \/ MainFinally

Spec == Init /\ [][Next]_vars

----------------------------------------------------------------------------
(* _request called directly, on every combination of params and data *)

Methods == {"GET", "POST"}
Paths == {"/calls", "/calls/transcript"}

\* Optional[dict] values for params and for data: None, {} and a mapping
ParamsValues == {PyNone, EmptyDict,
                 ListCallsParams(PyStr("2024-03-01T00:00:00Z"), PyNone)}
DataValues == {PyNone, EmptyDict, TranscriptsData(<<"id1", "id2">>)}

InitRequest ==
    /\ GONG_ACCESS_KEY = PyStr("key")
    /\ GONG_ACCESS_SECRET = PyStr("secret")
    /\ pc = "constructed"
    /\ exit_code = NotExited
    /\ stderr = <<>>
    /\ gong_client = GongClientInit("key", "secret")
    /\ tools = {}
    /\ requests = <<>>
    /\ inflight = {}
    /\ invocations = 0
    /\ completed = {}
    /\ last_result = NoResult
    /\ last_end = "none"
    /\ failed_before = FALSE
    /\ pending = "none"
    /\ sig_args \in [method : Methods, path : Paths, params : ParamsValues,
                     data : DataValues, t : Clock]
    /\ sig_out = <<>>

\* gong_client._request(method, path, params, data) up to its HTTP call
DirectRequest ==
    /\ sig_out = <<>>
    /\ sig_out' = <<Request(gong_client, sig_args.method, sig_args.path,
                            sig_args.params, sig_args.data, sig_args.t)>>
    /\ UNCHANGED <<procVars, sig_args>>

NextRequest == DirectRequest

SpecRequest == InitRequest /\ [][NextRequest]_vars

----------------------------------------------------------------------------
(* Properties *)

\* a mapping that holds at least one entry
Present(m) == m.t = "dict" /\ Len(m.keys) > 0

\* the signature header of a request whose signed payload text is `text`
SignatureOver(secret, method, path, timestamp, text) ==
    B64(HmacSha256(secret, StringToSign(method, path, timestamp, text)))

\* the payload text of a request as sent: its body, else its parameters
SentPayloadText(r) ==
    IF Present(r.json) THEN Dumps(r.json)
    ELSE IF Present(r.params) THEN Dumps(r.params)
    ELSE ""

Pair(e) == <<e.req.headers["X-Gong-Timestamp"],
             e.req.headers["X-Gong-Signature"]>>

RequestsOf(inv) == {i \in 1..Len(requests) : requests[i].inv = inv}

\* C1: an invocation of either tool whose client operation failed (HTTP
\* status, network, malformed body, serialisation) returned the text of the
\* JSON object {"error": "<message>"}, and no invocation that returned let
\* an exception out
C1_FailureReturnsErrorObject ==
    /\ last_result.inv # 0 => ~last_result.escaped
    /\ last_result.outcome \in Failures =>
          last_result.text =
             "{\n  \"error\": \"" \o ErrorMessage(last_result.outcome)
                \o "\"\n}"

C1_Witness ==
    /\ last_result.outcome = "malformed_body"
    /\ last_result.text = "{\n  \"error\": \"JSONDecodeError\"\n}"
    /\ ~last_result.escaped

\* C2: the signature header of every request sent is the signature of that
\* request's own method, of the path its URL ends with, of the value in its
\* timestamp header and of its own payload
C2_SignatureOfSameRequest ==
    \A i \in 1..Len(requests) :
        LET r == requests[i].req
        IN  \E p \in Paths :
               /\ r.url = GONG_API_URL \o p
               /\ r.headers["X-Gong-Signature"] =
                     SignatureOver(GONG_ACCESS_SECRET.s, r.method, p,
                                   r.headers["X-Gong-Timestamp"],
                                   SentPayloadText(r))

C2_Witness ==
    /\ Len(requests) = 2
    /\ requests[1].req.method = "POST"
    /\ requests[2].req.method = "GET"
    /\ requests[2].req.headers["X-Gong-Signature"] =
          SignatureOver("secret", "GET", "/calls",
                        requests[2].req.headers["X-Gong-Timestamp"],
                        "{\"fromDateTime\": \"2024-03-01T00:00:00Z\"}")

\* C3 as claimed: no two requests sent carry the same (timestamp,
\* signature) pair
C3_NoPairTwice ==
    \A i, j \in 1..Len(requests) :
        i # j => Pair(requests[i]) # Pair(requests[j])

\* C3 amended: every request carries the timestamp of its own clock
\* reading, and two requests built at different clock readings never carry
\* the same (timestamp, signature) pair
C3_NoPairTwiceAtDistinctReadings ==
    \A i, j \in 1..Len(requests) :
        (i # j /\ requests[i].at # requests[j].at)
            => Pair(requests[i]) # Pair(requests[j])

C3_Witness ==
    /\ Len(requests) = 2
    /\ requests[1].req.method = requests[2].req.method
    /\ requests[1].req.params = requests[2].req.params
    /\ requests[1].req.json = requests[2].req.json
    /\ requests[1].at # requests[2].at
    /\ Pair(requests[1]) # Pair(requests[2])

\* C4: _request signs the body when the body holds entries, else the query
\* parameters when they hold entries, else the empty string
C4_BodyThenParamsThenEmpty ==
    Len(sig_out) = 1 =>
        LET a == sig_args
            r == sig_out[1]
            text == IF Present(a.data) THEN Dumps(a.data)
                    ELSE IF Present(a.params) THEN Dumps(a.params)
                    ELSE ""
        IN  r.headers["X-Gong-Signature"] =
               SignatureOver("secret", a.method, a.path,
                             r.headers["X-Gong-Timestamp"], text)

C4_Witness ==
    /\ Len(sig_out) = 1
    /\ Present(sig_args.data)
    /\ Present(sig_args.params)
    /\ sig_out[1].json = sig_args.data
    /\ sig_out[1].params = sig_args.params
    /\ sig_out[1].headers["X-Gong-Signature"] =
          SignatureOver("secret", sig_args.method, sig_args.path,
                        sig_out[1].headers["X-Gong-Timestamp"],
                        Dumps(sig_args.data))

\* C5: with either credential unset, the process has exited with status 1
\* and the diagnostic as soon as it has left the check, with no client
\* constructed, no tool registered and no request sent
C5_MissingCredentialExits ==
    ((GONG_ACCESS_KEY.t = "none" \/ GONG_ACCESS_SECRET.t = "none")
        /\ pc # "import")
    => /\ pc = "exited"
       /\ exit_code = <<1>>
       /\ stderr = <<MissingCredentialsMessage>>
       /\ gong_client = NoClient
       /\ tools = {}
       /\ requests = <<>>

C5_Witness ==
    /\ GONG_ACCESS_KEY.t = "none"
    /\ GONG_ACCESS_SECRET = PyStr("secret")
    /\ pc = "exited"
    /\ exit_code = <<1>>

\* C6: once main() has served, the process has exited only with the HTTP
\* client closed
C6_ClosedBeforeExit ==
    (pc = "exited" /\ tools # {}) => gong_client.client = "closed"

C6_Witness ==
    /\ pc = "exited"
    /\ last_end = "interrupt"
    /\ stderr = <<ShutdownMessage>>
    /\ gong_client.client = "closed"

\* C7 as claimed: a list_calls request has fromDateTime (toDateTime) among
\* its query parameters exactly when the caller passed a value for it
C7_ParamIffProvided ==
    \A i \in 1..Len(requests) :
        requests[i].tool = "list_calls" =>
            /\ HasKey(requests[i].req.params, "fromDateTime")
                  <=> requests[i].from_date_time.t # "none"
            /\ HasKey(requests[i].req.params, "toDateTime")
                  <=> requests[i].to_date_time.t # "none"

\* C7 amended: a list_calls request has fromDateTime (toDateTime) among its
\* query parameters, with the value passed, exactly when the caller passed a
\* non-empty string for it; it has no other parameter and no body, and the
\* payload signed is the text of exactly these parameters, the empty
\* string when there are none
C7_ParamIffNonEmpty ==
    \A i \in 1..Len(requests) :
        requests[i].tool = "list_calls" =>
            LET e == requests[i]
                r == e.req
                given(v) == v.t = "str" /\ v.s # ""
            IN  /\ HasKey(r.params, "fromDateTime") <=> given(e.from_date_time)
                /\ HasKey(r.params, "toDateTime") <=> given(e.to_date_time)
                /\ HasKey(r.params, "fromDateTime")
                      => DictGet(r.params, "fromDateTime") = e.from_date_time
                /\ HasKey(r.params, "toDateTime")
                      => DictGet(r.params, "toDateTime") = e.to_date_time
                /\ \A k \in 1..Len(r.params.keys) :
                      r.params.keys[k] \in {"fromDateTime", "toDateTime"}
                /\ Len(r.params.keys)
                      = Cardinality({r.params.keys[k] :
                                        k \in 1..Len(r.params.keys)})
                /\ r.json = PyNone
                /\ r.headers["X-Gong-Signature"] =
                      SignatureOver(GONG_ACCESS_SECRET.s, "GET", "/calls",
                                    r.headers["X-Gong-Timestamp"],
                                    IF Len(r.params.keys) = 0 THEN ""
                                    ELSE Dumps(r.params))

C7_Witness ==
    /\ Len(requests) = 2
    /\ requests[1].tool = "list_calls"
    /\ requests[1].from_date_time = PyNone
    /\ requests[1].to_date_time = PyNone
    /\ requests[1].req.params = EmptyDict
    /\ requests[2].tool = "list_calls"
    /\ requests[2].from_date_time = PyStr("2024-03-01T00:00:00Z")
    /\ requests[2].to_date_time = PyNone
    /\ requests[2].req.params.keys = <<"fromDateTime">>

\* C8: after a tool invocation has failed the process still serves, the
\* client holds the credentials of start-up with its connection open, a
\* further invocation is accepted (up to the bound on invocations), and
\* every request sent is the one a freshly constructed client builds
C8_FailureLeavesClientIntact ==
    /\ (failed_before /\ pc = "serving") =>
          /\ gong_client = GongClientInit(GONG_ACCESS_KEY.s,
                                          GONG_ACCESS_SECRET.s)
          /\ gong_client.client = "open"
          /\ exit_code = NotExited
          /\ (inflight = {} /\ invocations < MaxInvocations) =>
                /\ CanAccept
                /\ tools = {"list_calls", "retrieve_transcripts"}
    /\ failed_before =>
          \A i \in 1..Len(requests) :
              LET e == requests[i]
                  fresh == GongClientInit(GONG_ACCESS_KEY.s,
                                          GONG_ACCESS_SECRET.s)
              IN  e.req = IF e.tool = "list_calls"
                          THEN GongClient_list_calls(fresh, e.from_date_time,
                                                     e.to_date_time, e.at)
                          ELSE GongClient_retrieve_transcripts(fresh,
                                                     e.call_ids, e.at)

C8_Witness ==
    /\ failed_before
    /\ pc = "serving"
    /\ last_result.outcome = "http_status_error"
    /\ Len(requests) = 2
    /\ inflight = {2}
    /\ gong_client.client = "open"

\* C9: every invocation that returned, with a result or with an error, sent
\* exactly one request, and so has every invocation still blocked
C9_OneRequestPerInvocation ==
    \A inv \in completed \cup inflight : Cardinality(RequestsOf(inv)) = 1

C9_Witness ==
    /\ last_result.outcome = "network_error"
    /\ last_result.inv \in completed
    /\ Cardinality(RequestsOf(last_result.inv)) = 1
    /\ Len(requests) = 1

\* C10 as claimed: at most one request is in flight, a request is sent only
\* after every earlier invocation has returned, and no in-flight request is
\* ended by anything but its response, its failure or its timeout
C10_OneInFlightNeverCancelled ==
    /\ Cardinality(inflight) <= 1
    /\ \A i \in 1..Len(requests) :
          i < Len(requests) => requests[i].inv \in completed
    /\ last_end # "interrupt"

\* C10 amended: at most one request is in flight, a request is sent only
\* after every earlier invocation has returned, and an in-flight request is
\* ended by its response, its failure, its timeout, or by a keyboard
\* interrupt that ends serving
C10_OneInFlightCancelledOnlyByInterrupt ==
    /\ Cardinality(inflight) <= 1
    /\ \A i \in 1..Len(requests) :
          i < Len(requests) => requests[i].inv \in completed
    /\ last_end \in {"none", "response", "error", "timeout", "interrupt"}
    /\ last_end = "interrupt" =>
          /\ pc \in {"finally", "exited"}
          /\ Len(requests) > 0
          /\ requests[Len(requests)].inv \notin completed

C10_Witness ==
    /\ Len(requests) = 2
    /\ inflight = {2}
    /\ completed = {1}
    /\ last_end = "timeout"

====
